---- MODULE Spec2Model ----
(***************************************************************************)
(* Model of autogpt/llm_utils.py: create_chat_completion and               *)
(* create_embedding_with_ada, two retry loops around the OpenAI SDK.       *)
(*                                                                         *)
(* A call is executed by a thread.  Its locals (attempt, backoff,          *)
(* warned_user, response) are indexed by the thread.  The SDK is the       *)
(* environment: every API call nondeterministically yields a successful    *)
(* response, a RateLimitError or an APIError with some HTTP status.        *)
(* Console output of debug mode (print) is not part of the state.          *)
(***************************************************************************)
EXTENDS Integers, Sequences, FiniteSets, TLC

\* ------------------------------------------------------------------ bounds
MaxChoices == 2

MaxArgs == 3

\* --------------------------------------------------------------- constants
num_retries == 10

\* ------------------------------------------------------------ environment
Threads == {1, 2}

None == << >>

Some(v) == << v >>

Contents == {"a", "b"}

\* A successful response body: the list of choices (chat) or of data items
\* (embedding), each reduced to its content / embedding.
Responses == UNION {[1..n -> Contents] : n \in 1..MaxChoices}

HttpStatuses == {500, 502, 503}

\* What one SDK call can do: return a response or raise.
ApiResults ==
    [kind : {"ok"}, http_status : {200}, body : Responses]
    \cup [kind : {"RateLimitError"}, http_status : {429}, body : {None}]
    \cup [kind : {"APIError"}, http_status : HttpStatuses, body : {None}]

NoResult == [kind |-> "none", http_status |-> 0, body |-> None]

Msgs1 == << [role |-> "system", content |-> "s"], [role |-> "user", content |-> "u"] >>

Msgs2 == << [role |-> "user", content |-> "q"] >>

ChatArgs ==
    { [messages |-> Msgs1, model |-> "gpt-4", temperature |-> 0,
       max_tokens |-> None, text |-> ""],
      [messages |-> Msgs2, model |-> "gpt-3.5-turbo", temperature |-> 1,
       max_tokens |-> Some(100), text |-> ""] }

EmbedArgs ==
    { [messages |-> << >>, model |-> "", temperature |-> 0,
       max_tokens |-> None, text |-> t] : t \in {"x", "y"} }

NoArgs ==
    [messages |-> << >>, model |-> "", temperature |-> 0,
     max_tokens |-> None, text |-> ""]

Models == {"gpt-3.5-turbo", "gpt-4"}

\* Python values passed in the args list of call_ai_function
PyNone == [tag |-> "none", int |-> 0, str |-> ""]

PyInt(n) == [tag |-> "int", int |-> n, str |-> ""]

PyStr(x) == [tag |-> "str", int |-> 0, str |-> x]

ArgValues == {PyInt(1), PyInt(-20), PyNone, PyStr("x"), PyStr("")}

\* every args list of at most MaxArgs values
ArgLists == UNION {[1..n -> ArgValues] : n \in 0..MaxArgs}

\* the args lists of the callers of the retry model
SmallArgLists == {<< >>, << PyInt(1), PyNone, PyStr("x") >>}

FunctionSources == {"def f(a, b, c): pass"}

Descriptions == {"joins"}

\* the frame of call_ai_function: its parameters
NoCaller ==
    [active |-> FALSE, function |-> "", args |-> << >>, description |-> "",
     model |-> None]

NoError == [type |-> "none", http_status |-> 0, at |-> 0]

NoOutcome == [kind |-> "none", value |-> None, error |-> NoError, code |-> 0]

VARIABLES
    debug_mode,    \* CFG.debug_mode
    use_azure,     \* CFG.use_azure
    smart_llm_model, \* CFG.smart_llm_model
    active,        \* threads that run calls
    op,            \* op[t]: "none", "chat", "embed": the function t executes
    args,          \* args[t]: the arguments of the call
    pc,            \* pc[t]: "idle", "try", "sleep", "after", "done"
    attempt,       \* attempt[t]: loop variable of for attempt in range(num_retries)
    backoff,       \* backoff[t]
    warned_user,   \* warned_user[t]
    response,      \* response[t]: None or the successful response
    outcome,       \* outcome[t]: how the call ended
    calls,         \* history: number of SDK calls made by the call
    sleeps,        \* history: the durations passed to time.sleep, in order
    trace,         \* history: the externally visible events of the call, in order
    requests,      \* history: the set of requests sent by the call
    nRate,         \* history: number of RateLimitErrors seen by the call
    n502,          \* history: number of 502 APIErrors seen by the call
    last,          \* history: result of the call's latest SDK call
    caller,        \* caller[t]: the frame of call_ai_function when the chat
                   \* completion of t was called by it
    fn_outcome,    \* fn_outcome[t]: how call_ai_function ended
    delegated      \* history: calls of create_chat_completion made by
                   \* call_ai_function

vars == << debug_mode, use_azure, active, op, args, pc, attempt, backoff,
           warned_user, response, outcome, calls, sleeps, trace, requests,
           nRate, n502, last, smart_llm_model, caller, fn_outcome, delegated >>

cfgVars == << debug_mode, use_azure, smart_llm_model, active >>

fnVars == << caller, fn_outcome, delegated >>

\* ---------------------------------------------------------------- helpers

\* CFG.get_azure_deployment_id_for_model(model)
AzureDeploymentId(model) == << "deployment", model >>

NoRequest ==
    [api |-> "none", deployment_id |-> None, engine |-> None, model |-> None,
     messages |-> << >>, temperature |-> 0, max_tokens |-> None, input |-> << >>]

\* bug: the deployment identifier is left out of the Azure request
ChatRequest_NoDeployment(a) ==
    [api |-> "ChatCompletion",
     deployment_id |-> None,
     engine |-> None,
     model |-> Some(a.model),
     messages |-> a.messages,
     temperature |-> a.temperature,
     max_tokens |-> a.max_tokens,
     input |-> << >>]

\* the keyword arguments of openai.ChatCompletion.create
ChatRequest(a) ==
    [api |-> "ChatCompletion",
     deployment_id |-> IF use_azure THEN Some(AzureDeploymentId(a.model)) ELSE None,
     engine |-> None,
     model |-> Some(a.model),
     messages |-> a.messages,
     temperature |-> a.temperature,
     max_tokens |-> a.max_tokens,
     input |-> << >>]

\* bug: the text of the caller is not sent
EmbedRequest_NoInput(a) ==
    [api |-> "Embedding",
     deployment_id |-> None,
     engine |-> IF use_azure THEN Some(AzureDeploymentId("text-embedding-ada-002")) ELSE None,
     model |-> IF use_azure THEN None ELSE Some("text-embedding-ada-002"),
     messages |-> << >>,
     temperature |-> 0,
     max_tokens |-> None,
     input |-> << >>]

\* the keyword arguments of openai.Embedding.create
EmbedRequest(a) ==
    [api |-> "Embedding",
     deployment_id |-> None,
     engine |-> IF use_azure THEN Some(AzureDeploymentId("text-embedding-ada-002")) ELSE None,
     model |-> IF use_azure THEN None ELSE Some("text-embedding-ada-002"),
     messages |-> << >>,
     temperature |-> 0,
     max_tokens |-> None,
     input |-> << a.text >>]

\* bug: the exponent lacks the offset of two
ChatBackoff_NoOffset(a) == 2 ^ a

\* backoff = 2 ** (attempt + 2) in create_chat_completion
ChatBackoff(a) == 2 ^ (a + 2)

\* bug: the delay grows linearly instead of doubling
EmbedBackoff_Linear(a) == 4 * (a + 1)

\* backoff = 2 ** (attempt + 2) in create_embedding_with_ada
EmbedBackoff(a) == 2 ^ (a + 2)

\* bug: the last choice is taken instead of the first
ChatContent_Last(resp) == resp[Len(resp)]

\* response.choices[0].message["content"]
ChatContent(resp) == resp[1]

\* [...]["data"][0]["embedding"]
EmbedContent(resp) == resp[1]

\* bug: every 5xx status is retried
ChatBadGateway_Any5xx(status) == status >= 500

\* e.http_status == 502 in create_chat_completion
ChatBadGateway(status) == status = 502

\* e.http_status == 502 in create_embedding_with_ada
EmbedBadGateway(status) == status = 502

\* bug: the comparison is with num_retries, which attempt never reaches
ChatLastAttempt_Never(a) == a = num_retries

\* attempt == num_retries - 1 in create_chat_completion
ChatLastAttempt(a) == a = num_retries - 1

\* attempt == num_retries - 1 in create_embedding_with_ada
EmbedLastAttempt(a) == a = num_retries - 1

\* bug: the loop has no bound
HasNextAttempt_Endless(a) == TRUE

\* bug: the loop runs once more
HasNextAttempt_OffByOne(a) == a + 1 <= num_retries

\* does for attempt in range(num_retries) have a next value after a
HasNextAttempt(a) == a + 1 < num_retries

ApiErrorOf(r, a) == [type |-> r.kind, http_status |-> r.http_status, at |-> a]

Raised(e) == [kind |-> "raise", value |-> None, error |-> e, code |-> 0]

Returned(v) == [kind |-> "return", value |-> v, error |-> NoError, code |-> 0]

Exited(c) == [kind |-> "exit", value |-> None, error |-> NoError, code |-> c]

\* bug: debug mode is not consulted, the error is always raised
ExhaustedOutcome_AlwaysRaise(debug, a) ==
    Raised([type |-> "RuntimeError", http_status |-> 0, at |-> a])

\* the if CFG.debug_mode: raise RuntimeError(...) else: quit(1) of the
\* response is None branch
ExhaustedOutcome(debug, a) ==
    IF debug
    THEN Raised([type |-> "RuntimeError", http_status |-> 0, at |-> a])
    ELSE Exited(1)

\* bug: the failure message is not logged before the raise / quit
ExhaustedTrace_NoLog(debug) == << IF debug THEN "raise" ELSE "quit" >>

\* the events of the response is None branch, in order: logger.typewriter_log,
\* logger.double_check, then raise RuntimeError or quit(1)
ExhaustedTrace(debug) ==
    << "typewriter_log", "double_check", IF debug THEN "raise" ELSE "quit" >>

DigitChar(d) ==
    CASE d = 0 -> "0" [] d = 1 -> "1" [] d = 2 -> "2" [] d = 3 -> "3" [] d = 4 -> "4"
      [] d = 5 -> "5" [] d = 6 -> "6" [] d = 7 -> "7" [] d = 8 -> "8" [] d = 9 -> "9"

RECURSIVE NatStr(_)
\* str(n) for an int n >= 0
NatStr(n) == IF n < 10 THEN DigitChar(n) ELSE NatStr(n \div 10) \o DigitChar(n % 10)

\* str(v)
PyStrOf(v) ==
    CASE v.tag = "int" -> IF v.int < 0 THEN "-" \o NatStr(-v.int) ELSE NatStr(v.int)
      [] v.tag = "str" -> v.str
      [] v.tag = "none" -> "None"

\* str(arg) if arg is not None else "None"
ArgText(arg) == IF arg # PyNone THEN PyStrOf(arg) ELSE "None"

RECURSIVE Join_TrailingSeparator(_, _)
\* bug: the separator is put after every item instead of between items
Join_TrailingSeparator(sep, strs) ==
    IF strs = << >> THEN ""
    ELSE strs[1] \o sep \o Join_TrailingSeparator(sep, Tail(strs))

RECURSIVE Join(_, _)
\* sep.join(strs)
Join(sep, strs) ==
    IF strs = << >> THEN ""
    ELSE IF Len(strs) = 1 THEN strs[1]
    ELSE strs[1] \o sep \o Join(sep, Tail(strs))

\* args = [str(arg) ...]; args = ", ".join(args)
JoinedArgs(arglist) == Join(", ", [i \in 1..Len(arglist) |-> ArgText(arglist[i])])

\* The content of the system message.  The two Chinese sentences of the
\* f-string are written in English and its backquotes as apostrophes, which
\* is what a string of this module can hold.
SystemContent(description, function) ==
    "You are now the following Python function: '''# " \o description
        \o "\n" \o function \o "'''\n\nOnly respond with your 'return' value."

\* messages of call_ai_function
AiMessages(function, arglist, description) ==
    << [role |-> "system", content |-> SystemContent(description, function)],
       [role |-> "user", content |-> JoinedArgs(arglist)] >>

\* bug: the model given by the caller is ignored
AiModel_AlwaysSmart(model) == smart_llm_model

\* if model is None: model = CFG.smart_llm_model
AiModel(model) == IF model = None THEN smart_llm_model ELSE model[1]

\* create_chat_completion(model=model, messages=messages, temperature=0);
\* max_tokens takes its default
AiChatArgs(function, arglist, description, model) ==
    [messages |-> AiMessages(function, arglist, description),
     model |-> AiModel(model),
     temperature |-> 0,
     max_tokens |-> None,
     text |-> ""]

\* the events of if not warned_user: ... in the RateLimitError handler: the
\* logger.double_check(...) advisory is commented out, only the flag is set
RateLimitAdvisory(warned) == << >>

\* ------------------------------------------------------------------- Init
TypeOK ==
    /\ debug_mode \in BOOLEAN
    /\ use_azure \in BOOLEAN
    /\ smart_llm_model \in Models
    /\ active \subseteq Threads
    /\ op \in [Threads -> {"none", "chat", "embed"}]
    /\ pc \in [Threads -> {"idle", "try", "sleep", "after", "done"}]
    /\ attempt \in [Threads -> 0..(num_retries - 1)]
    /\ warned_user \in [Threads -> BOOLEAN]
    /\ calls \in [Threads -> Nat]

IdleInit ==
    /\ op = [t \in Threads |-> "none"]
    /\ args = [t \in Threads |-> NoArgs]
    /\ pc = [t \in Threads |-> "idle"]
    /\ attempt = [t \in Threads |-> 0]
    /\ backoff = [t \in Threads |-> 0]
    /\ warned_user = [t \in Threads |-> FALSE]
    /\ response = [t \in Threads |-> None]
    /\ outcome = [t \in Threads |-> NoOutcome]
    /\ calls = [t \in Threads |-> 0]
    /\ sleeps = [t \in Threads |-> << >>]
    /\ trace = [t \in Threads |-> << >>]
    /\ requests = [t \in Threads |-> {}]
    /\ nRate = [t \in Threads |-> 0]
    /\ n502 = [t \in Threads |-> 0]
    /\ last = [t \in Threads |-> NoResult]
    /\ caller = [t \in Threads |-> NoCaller]
    /\ fn_outcome = [t \in Threads |-> NoOutcome]
    /\ delegated = [t \in Threads |-> 0]

\* One caller thread; CFG is whatever the configuration says.
Init ==
    /\ debug_mode \in BOOLEAN
    /\ use_azure \in BOOLEAN
    /\ smart_llm_model \in Models
    /\ active = {1}
    /\ IdleInit

\* ---------------------------------------------------------------- actions

\* bug: the loop state is kept in module-level variables, one cell for all calls
Frame_Shared(t) == 1

\* Where the call of thread t keeps response, warned_user, attempt and
\* backoff: they are assigned in the function body, so they are locals of
\* the call's own frame.
Frame(t) == t


\* The state of a call at entry of either function.
Enter(t, o, a) ==
    /\ pc[t] = "idle"
    /\ op' = [op EXCEPT ![t] = o]
    /\ args' = [args EXCEPT ![t] = a]
    /\ pc' = [pc EXCEPT ![t] = "try"]
    /\ attempt' = [attempt EXCEPT ![t] = 0]
    /\ backoff' = [backoff EXCEPT ![t] = 0]
    /\ warned_user' = [warned_user EXCEPT ![t] = FALSE]
    /\ response' = [response EXCEPT ![t] = None]
    /\ outcome' = [outcome EXCEPT ![t] = NoOutcome]
    /\ calls' = [calls EXCEPT ![t] = 0]
    /\ sleeps' = [sleeps EXCEPT ![t] = << >>]
    /\ trace' = [trace EXCEPT ![t] = << >>]
    /\ requests' = [requests EXCEPT ![t] = {}]
    /\ nRate' = [nRate EXCEPT ![t] = 0]
    /\ n502' = [n502 EXCEPT ![t] = 0]
    /\ last' = [last EXCEPT ![t] = NoResult]
    /\ UNCHANGED cfgVars

\* History kept for one SDK call with result r.
Observe(t, req, r) ==
    /\ calls' = [calls EXCEPT ![t] = @ + 1]
    /\ requests' = [requests EXCEPT ![t] = @ \cup {req}]
    /\ nRate' = [nRate EXCEPT ![t] = IF r.kind = "RateLimitError" THEN @ + 1 ELSE @]
    /\ n502' = [n502 EXCEPT ![t] =
                    IF r.kind = "APIError" /\ r.http_status = 502 THEN @ + 1 ELSE @]
    /\ last' = [last EXCEPT ![t] = r]

\* create_chat_completion: entry up to the loop
ChatCall(t, a) == Enter(t, "chat", a) /\ UNCHANGED fnVars

\* call_ai_function: the messages are built and create_chat_completion is
\* called with them
call_ai_function(t, function, arglist, description, model) ==
    /\ Enter(t, "chat", AiChatArgs(function, arglist, description, model))
    /\ caller' = [caller EXCEPT ![t] =
                      [active |-> TRUE, function |-> function, args |-> arglist,
                       description |-> description, model |-> model]]
    /\ delegated' = [delegated EXCEPT ![t] = @ + 1]
    /\ UNCHANGED fn_outcome

\* call_ai_function: return create_chat_completion(...), the result or the
\* exception of the chat completion passes through
AiFunctionReturn(t) ==
    /\ pc[t] = "done"
    /\ caller[t].active
    /\ fn_outcome[t] = NoOutcome
    /\ fn_outcome' = [fn_outcome EXCEPT ![t] = outcome[t]]
    /\ UNCHANGED << cfgVars, op, args, pc, attempt, backoff, warned_user, response,
                    outcome, calls, sleeps, trace, requests, nRate, n502, last,
                    caller, delegated >>

\* create_chat_completion: one iteration of the loop up to time.sleep
ChatAttempt(t, r) ==
    /\ pc[t] = "try"
    /\ op[t] = "chat"
    /\ backoff' = [backoff EXCEPT ![Frame(t)] = ChatBackoff(attempt[Frame(t)])]
    /\ Observe(t, ChatRequest(args[t]), r)
    /\ CASE r.kind = "ok" ->
               \* response = ...; break
               /\ response' = [response EXCEPT ![Frame(t)] = r.body]
               /\ pc' = [pc EXCEPT ![t] = "after"]
               /\ trace' = [trace EXCEPT ![t] = Append(@, "api")]
               /\ UNCHANGED << warned_user, outcome >>
         [] r.kind = "RateLimitError" ->
               /\ warned_user' = [warned_user EXCEPT ![Frame(t)] = TRUE]
               /\ pc' = [pc EXCEPT ![t] = "sleep"]
               /\ trace' = [trace EXCEPT ![t] =
                               Append(@, "api") \o RateLimitAdvisory(warned_user[Frame(t)])]
               /\ UNCHANGED << response, outcome >>
         [] r.kind = "APIError" ->
               IF ChatBadGateway(r.http_status) /\ ~ChatLastAttempt(attempt[Frame(t)])
               THEN /\ pc' = [pc EXCEPT ![t] = "sleep"]
                    /\ trace' = [trace EXCEPT ![t] = Append(@, "api")]
                    /\ UNCHANGED << warned_user, response, outcome >>
               ELSE \* raise
                    /\ pc' = [pc EXCEPT ![t] = "done"]
                    /\ outcome' = [outcome EXCEPT ![t] = Raised(ApiErrorOf(r, attempt[Frame(t)]))]
                    /\ trace' = [trace EXCEPT ![t] = @ \o << "api", "raise" >>]
                    /\ UNCHANGED << warned_user, response >>
    /\ UNCHANGED << cfgVars, fnVars, op, args, attempt, sleeps >>

\* create_chat_completion: time.sleep(backoff) and the step of the loop
ChatSleep(t) ==
    /\ pc[t] = "sleep"
    /\ op[t] = "chat"
    /\ sleeps' = [sleeps EXCEPT ![t] = Append(@, backoff[Frame(t)])]
    /\ trace' = [trace EXCEPT ![t] = Append(@, "sleep")]
    /\ IF HasNextAttempt(attempt[Frame(t)])
       THEN /\ attempt' = [attempt EXCEPT ![Frame(t)] = @ + 1]
            /\ pc' = [pc EXCEPT ![t] = "try"]
       ELSE /\ pc' = [pc EXCEPT ![t] = "after"]
            /\ UNCHANGED attempt
    /\ UNCHANGED << cfgVars, fnVars, op, args, backoff, warned_user, response, outcome,
                    calls, requests, nRate, n502, last >>

\* create_chat_completion: the code after the loop
ChatAfterLoop(t) ==
    /\ pc[t] = "after"
    /\ op[t] = "chat"
    /\ pc' = [pc EXCEPT ![t] = "done"]
    /\ IF response[Frame(t)] = None
       THEN /\ outcome' = [outcome EXCEPT ![t] = ExhaustedOutcome(debug_mode, attempt[Frame(t)])]
            /\ trace' = [trace EXCEPT ![t] = @ \o ExhaustedTrace(debug_mode)]
       ELSE /\ outcome' = [outcome EXCEPT ![t] = Returned(Some(ChatContent(response[Frame(t)])))]
            /\ trace' = [trace EXCEPT ![t] = Append(@, "return")]
    /\ UNCHANGED << cfgVars, fnVars, op, args, attempt, backoff, warned_user, response,
                    calls, sleeps, requests, nRate, n502, last >>

\* create_embedding_with_ada: entry up to the loop
EmbedCall(t, a) == Enter(t, "embed", a) /\ UNCHANGED fnVars

\* create_embedding_with_ada: one iteration of the loop up to time.sleep
EmbedAttempt(t, r) ==
    /\ pc[t] = "try"
    /\ op[t] = "embed"
    /\ backoff' = [backoff EXCEPT ![Frame(t)] = EmbedBackoff(attempt[Frame(t)])]
    /\ Observe(t, EmbedRequest(args[t]), r)
    /\ CASE r.kind = "ok" ->
               \* return ...["data"][0]["embedding"]
               /\ pc' = [pc EXCEPT ![t] = "done"]
               /\ outcome' = [outcome EXCEPT ![t] = Returned(Some(EmbedContent(r.body)))]
               /\ trace' = [trace EXCEPT ![t] = @ \o << "api", "return" >>]
         [] r.kind = "RateLimitError" ->
               /\ pc' = [pc EXCEPT ![t] = "sleep"]
               /\ trace' = [trace EXCEPT ![t] = Append(@, "api")]
               /\ UNCHANGED outcome
         [] r.kind = "APIError" ->
               IF EmbedBadGateway(r.http_status) /\ ~EmbedLastAttempt(attempt[Frame(t)])
               THEN /\ pc' = [pc EXCEPT ![t] = "sleep"]
                    /\ trace' = [trace EXCEPT ![t] = Append(@, "api")]
                    /\ UNCHANGED outcome
               ELSE \* raise
                    /\ pc' = [pc EXCEPT ![t] = "done"]
                    /\ outcome' = [outcome EXCEPT ![t] = Raised(ApiErrorOf(r, attempt[Frame(t)]))]
                    /\ trace' = [trace EXCEPT ![t] = @ \o << "api", "raise" >>]
    /\ UNCHANGED << cfgVars, fnVars, op, args, attempt, warned_user, response, sleeps >>

\* create_embedding_with_ada: time.sleep(backoff) and the step of the loop;
\* when the loop runs out the function ends without a return statement
EmbedSleep(t) ==
    /\ pc[t] = "sleep"
    /\ op[t] = "embed"
    /\ sleeps' = [sleeps EXCEPT ![t] = Append(@, backoff[Frame(t)])]
    /\ IF HasNextAttempt(attempt[Frame(t)])
       THEN /\ attempt' = [attempt EXCEPT ![Frame(t)] = @ + 1]
            /\ pc' = [pc EXCEPT ![t] = "try"]
            /\ trace' = [trace EXCEPT ![t] = Append(@, "sleep")]
            /\ UNCHANGED outcome
       ELSE /\ pc' = [pc EXCEPT ![t] = "done"]
            /\ outcome' = [outcome EXCEPT ![t] = Returned(None)]
            /\ trace' = [trace EXCEPT ![t] = @ \o << "sleep", "return" >>]
            /\ UNCHANGED attempt
    /\ UNCHANGED << cfgVars, fnVars, op, args, backoff, warned_user, response,
                    calls, requests, nRate, n502, last >>

\* The caller gets the result or the exception and goes on; after quit(1)
\* there is no caller left.
Finish(t) ==
    /\ pc[t] = "done"
    /\ outcome[t].kind # "exit"
    /\ caller[t].active => fn_outcome[t] # NoOutcome
    /\ caller' = [caller EXCEPT ![t] = NoCaller]
    /\ fn_outcome' = [fn_outcome EXCEPT ![t] = NoOutcome]
    /\ delegated' = [delegated EXCEPT ![t] = 0]
    /\ op' = [op EXCEPT ![t] = "none"]
    /\ args' = [args EXCEPT ![t] = NoArgs]
    /\ pc' = [pc EXCEPT ![t] = "idle"]
    /\ attempt' = [attempt EXCEPT ![t] = 0]
    /\ backoff' = [backoff EXCEPT ![t] = 0]
    /\ warned_user' = [warned_user EXCEPT ![t] = FALSE]
    /\ response' = [response EXCEPT ![t] = None]
    /\ outcome' = [outcome EXCEPT ![t] = NoOutcome]
    /\ calls' = [calls EXCEPT ![t] = 0]
    /\ sleeps' = [sleeps EXCEPT ![t] = << >>]
    /\ trace' = [trace EXCEPT ![t] = << >>]
    /\ requests' = [requests EXCEPT ![t] = {}]
    /\ nRate' = [nRate EXCEPT ![t] = 0]
    /\ n502' = [n502 EXCEPT ![t] = 0]
    /\ last' = [last EXCEPT ![t] = NoResult]
    /\ UNCHANGED cfgVars

Next ==
    \E t \in active :
        \/ \E a \in ChatArgs : ChatCall(t, a)
        \/ \E r \in ApiResults : ChatAttempt(t, r)
        \/ ChatSleep(t)
        \/ ChatAfterLoop(t)
        \/ \E a \in EmbedArgs : EmbedCall(t, a)
        \/ \E r \in ApiResults : EmbedAttempt(t, r)
        \/ EmbedSleep(t)
        \/ \E f \in FunctionSources, a \in SmallArgLists, d \in Descriptions,
              m \in {None} \cup {Some(x) : x \in Models} :
               call_ai_function(t, f, a, d, m)
        \/ AiFunctionReturn(t)
        \/ Finish(t)

Spec == Init /\ [][Next]_vars

\* The callers of call_ai_function pass every args list of ArgLists; the SDK
\* answers the first attempt, with a response or with an error that is not
\* retried.
FnResults ==
    {r \in ApiResults :
        \/ r.kind = "ok" /\ r.body = << "a" >>
        \/ r.kind = "APIError" /\ r.http_status = 500}

FnNext ==
    \E t \in active :
        \/ \E f \in FunctionSources, a \in ArgLists, d \in Descriptions,
              m \in {None} \cup {Some(x) : x \in Models} :
               call_ai_function(t, f, a, d, m)
        \/ \E r \in FnResults : ChatAttempt(t, r)
        \/ ChatAfterLoop(t)
        \/ AiFunctionReturn(t)
        \/ Finish(t)

FnSpec == Init /\ [][FnNext]_vars

\* Two threads call concurrently.  The SDK results are cut down to responses
\* with one item and two statuses, the arguments to one value per function,
\* the configuration to the direct (non-Azure) target.
ConcResults == {r \in ApiResults : Len(r.body) <= 1 /\ r.http_status # 503}

ConcChatArgs == {a \in ChatArgs : a.model = "gpt-4"}

ConcEmbedArgs == {a \in EmbedArgs : a.text = "x"}

ConcInit ==
    /\ debug_mode \in BOOLEAN
    /\ use_azure = FALSE
    /\ smart_llm_model = "gpt-4"
    /\ active = Threads
    /\ IdleInit

ConcNext ==
    \E t \in active :
        \/ \E a \in ConcChatArgs : ChatCall(t, a)
        \/ \E r \in ConcResults : ChatAttempt(t, r)
        \/ ChatSleep(t)
        \/ ChatAfterLoop(t)
        \/ \E a \in ConcEmbedArgs : EmbedCall(t, a)
        \/ \E r \in ConcResults : EmbedAttempt(t, r)
        \/ EmbedSleep(t)
        \/ Finish(t)

ConcSpec == ConcInit /\ [][ConcNext]_vars

\* The steps of a running call: an SDK call that returns or raises, a sleep
\* that ends, the code after the loop.
Running(t) ==
    /\ t \in active
    /\ \/ \E r \in ApiResults : ChatAttempt(t, r)
       \/ ChatSleep(t)
       \/ ChatAfterLoop(t)
       \/ \E r \in ApiResults : EmbedAttempt(t, r)
       \/ EmbedSleep(t)

\* Every SDK call and every sleep eventually returns.
FairSpec == Spec /\ \A t \in Threads : WF_vars(Running(t))

\* ------------------------------------------------------------- properties

\* number of transient failures (RateLimitError or APIError 502) seen so far
Transients(t) == nRate[t] + n502[t]

\* the latest SDK call of t succeeded and every call before it was a
\* transient failure
SucceededAfterTransients(t) ==
    /\ last[t].kind = "ok"
    /\ calls[t] = Transients(t) + 1

\* all num_retries SDK calls of t were transient failures and t has ended
ExhaustedByTransients(t) ==
    /\ pc[t] = "done"
    /\ Transients(t) = num_retries

\* 4, 8, ..., 2^(k+1)
BackoffSchedule(k) == [i \in 1..k |-> 2 ^ (i + 1)]

\* k times an SDK call followed by a sleep
RetryTrace(k) == [i \in 1..(2 * k) |-> IF i % 2 = 1 THEN "api" ELSE "sleep"]

Occurs(e, s) == \E i \in 1..Len(s) : s[i] = e

\* C1: a chat completion whose k < 10 transient failures are followed by a
\* success makes k+1 SDK calls, the success being attempt index k, makes no
\* further attempt, and returns the content of the first choice of that
\* response.
C1_ReturnsFirstChoice ==
    \A t \in Threads :
        (op[t] = "chat" /\ SucceededAfterTransients(t)) =>
            /\ Transients(t) < num_retries
            /\ attempt[t] = Transients(t)
            /\ calls[t] = attempt[t] + 1
            /\ pc[t] \in {"after", "done"}
            /\ pc[t] = "after" => response[t] = last[t].body
            /\ pc[t] = "done" => outcome[t] = Returned(Some(last[t].body[1]))

C1_Witness ==
    \E t \in Threads :
        /\ op[t] = "chat" /\ pc[t] = "done" /\ SucceededAfterTransients(t)
        /\ nRate[t] > 0 /\ n502[t] > 0
        /\ Len(last[t].body) = 2 /\ last[t].body[1] # last[t].body[2]
        /\ outcome[t].kind = "return"

\* C2: a chat completion whose k < 10 transient failures are followed by a
\* success has slept exactly 4, 8, ..., 2^(k+1) seconds, once after each
\* failure and not after the success.
C2_SleepSchedule ==
    \A t \in Threads :
        (op[t] = "chat" /\ pc[t] = "done" /\ SucceededAfterTransients(t)) =>
            /\ sleeps[t] = BackoffSchedule(Transients(t))
            /\ trace[t] = RetryTrace(Transients(t)) \o << "api", "return" >>

C2_Witness ==
    \E t \in Threads :
        /\ op[t] = "chat" /\ pc[t] = "done" /\ SucceededAfterTransients(t)
        /\ nRate[t] > 0 /\ n502[t] > 0
        /\ sleeps[t] = << 4, 8, 16, 32, 64, 128, 256, 512, 1024 >>

\* C3: in both functions an APIError whose status is not 502 ends the call
\* at once: it is the error raised, from the attempt that got it, with no
\* SDK call and no sleep after it and without the failure message.
C3_OtherApiErrorPropagates ==
    \A t \in Threads :
        (last[t].kind = "APIError" /\ last[t].http_status # 502) =>
            /\ pc[t] = "done"
            /\ attempt[t] = calls[t] - 1
            /\ outcome[t] = Raised(ApiErrorOf(last[t], attempt[t]))
            /\ Len(sleeps[t]) = calls[t] - 1
            /\ trace[t] = RetryTrace(calls[t] - 1) \o << "api", "raise" >>
            /\ ~Occurs("typewriter_log", trace[t])

C3_Witness ==
    \E t \in Threads :
        /\ op[t] = "chat" /\ pc[t] = "done"
        /\ last[t].kind = "APIError" /\ last[t].http_status = 503
        /\ calls[t] = num_retries
        /\ nRate[t] > 0 /\ n502[t] > 0
        /\ outcome[t].kind = "raise"

\* C4 as stated: after 10 transient failures in any mix a chat completion
\* raises the retries-exhausted error in debug mode and exits the process
\* with a non-zero status otherwise.
C4_Original ==
    \A t \in Threads :
        (op[t] = "chat" /\ ExhaustedByTransients(t)) =>
            /\ calls[t] = num_retries
            /\ IF debug_mode
               THEN outcome[t].kind = "raise" /\ outcome[t].error.type = "RuntimeError"
               ELSE outcome[t].kind = "exit" /\ outcome[t].code # 0

\* C4 amended: after 10 transient failures exactly 10 SDK calls were made;
\* when the tenth failure is a RateLimitError the call raises the
\* retries-exhausted error in debug mode and exits the process with a
\* non-zero status otherwise; when the tenth failure is a 502 APIError that
\* APIError is raised whatever the debug mode.
C4_ExhaustedByKind ==
    \A t \in Threads :
        (op[t] = "chat" /\ ExhaustedByTransients(t)) =>
            /\ calls[t] = num_retries
            /\ IF last[t].kind = "RateLimitError"
               THEN IF debug_mode
                    THEN outcome[t].kind = "raise"
                         /\ outcome[t].error.type = "RuntimeError"
                    ELSE outcome[t].kind = "exit" /\ outcome[t].code # 0
               ELSE outcome[t] = Raised(ApiErrorOf(last[t], num_retries - 1))

C4_Witness ==
    \E t \in Threads :
        /\ op[t] = "chat" /\ ExhaustedByTransients(t)
        /\ last[t].kind = "RateLimitError" /\ n502[t] > 0
        /\ ~debug_mode
        /\ outcome[t].kind = "exit"

\* C5: an embedding call whose 10 attempts all fail with transient failures
\* raises the error of the tenth attempt.
C5_EmbedReraisesLast ==
    \A t \in Threads :
        (op[t] = "embed" /\ ExhaustedByTransients(t)) =>
            outcome[t] = Raised(ApiErrorOf(last[t], num_retries - 1))

\* C6: a call that returns normally returns the first item of a successful
\* response it obtained, never an absent value.
C6_NoPartialResult ==
    \A t \in Threads :
        (pc[t] = "done" /\ outcome[t].kind = "return") =>
            /\ last[t].kind = "ok"
            /\ outcome[t].value = Some(last[t].body[1])

\* C7: one attempt budget: a call makes at most num_retries SDK calls, and
\* every failure, whatever its kind, moves the attempt index and with it the
\* backoff one step on.
C7_SharedBudget ==
    \A t \in Threads :
        /\ calls[t] <= num_retries
        /\ pc[t] = "try" =>
               /\ attempt[t] = Transients(t)
               /\ calls[t] = attempt[t]
               /\ sleeps[t] = BackoffSchedule(Transients(t))
        /\ pc[t] = "sleep" =>
               /\ attempt[t] + 1 = Transients(t)
               /\ calls[t] = Transients(t)
               /\ backoff[t] = 2 ^ (Transients(t) + 1)
               /\ sleeps[t] = BackoffSchedule(Transients(t) - 1)

C7_Witness ==
    \E t \in Threads :
        /\ op[t] = "embed" /\ pc[t] = "sleep"
        /\ calls[t] = num_retries
        /\ nRate[t] > 0 /\ n502[t] > 0
        /\ backoff[t] = 2048

\* C8: after k < 10 transient failures and a success, the embedding call
\* and the chat completion alike have made k+1 SDK calls, have slept
\* 4, 8, ..., 2^(k+1) (each function's sleeps are also the ones the other
\* function's backoff gives for the same attempts) and return the first item
\* of the response.
C8_EmbedRetriesLikeChat ==
    \A t \in Threads :
        (op[t] \in {"chat", "embed"} /\ pc[t] = "done" /\ SucceededAfterTransients(t)) =>
            /\ calls[t] = Transients(t) + 1
            /\ attempt[t] = Transients(t)
            /\ sleeps[t] = BackoffSchedule(Transients(t))
            /\ sleeps[t] = [i \in 1..Transients(t) |->
                                IF op[t] = "chat" THEN EmbedBackoff(i - 1)
                                                  ELSE ChatBackoff(i - 1)]
            /\ outcome[t] = Returned(Some(last[t].body[1]))

C8_Witness ==
    \E t \in Threads :
        /\ op[t] = "embed" /\ pc[t] = "done" /\ SucceededAfterTransients(t)
        /\ nRate[t] > 0 /\ n502[t] > 0
        /\ Len(sleeps[t]) = num_retries - 1
        /\ Len(last[t].body) = 2 /\ last[t].body[1] # last[t].body[2]
        /\ outcome[t].kind = "return"

\* the call of t ended by the retries-exhausted error or by process exit
TerminalFailure(t) ==
    \/ outcome[t].kind = "exit"
    \/ outcome[t].kind = "raise" /\ outcome[t].error.type = "RuntimeError"

\* C9: a chat completion that ends by the retries-exhausted error or by
\* process exit has logged the failure message before that, and only such a
\* call logs it.
C9_FailureMessageOrder ==
    \A t \in Threads :
        /\ (op[t] = "chat" /\ pc[t] = "done" /\ TerminalFailure(t)) =>
               \E i \in 1..(Len(trace[t]) - 1) :
                   /\ trace[t][i] = "typewriter_log"
                   /\ trace[t][Len(trace[t])] \in {"raise", "quit"}
                   /\ \A j \in 1..i : trace[t][j] \notin {"raise", "quit"}
        /\ Occurs("typewriter_log", trace[t]) =>
               op[t] = "chat" /\ pc[t] = "done" /\ TerminalFailure(t)

C9_Witness ==
    \E t \in Threads :
        /\ op[t] = "chat" /\ pc[t] = "done"
        /\ debug_mode
        /\ outcome[t].kind = "raise" /\ outcome[t].error.type = "RuntimeError"
        /\ Occurs("typewriter_log", trace[t])

\* C10: every sleep is followed by a further SDK call of the same call, so
\* a call sleeps at most num_retries - 1 times.
C10_SleepsOnlyBetweenAttempts ==
    \A t \in Threads :
        /\ Len(sleeps[t]) <= num_retries - 1
        /\ pc[t] = "done" =>
               \A i \in 1..Len(trace[t]) :
                   trace[t][i] = "sleep" =>
                       \E j \in (i + 1)..Len(trace[t]) : trace[t][j] = "api"

Count(e, s) == Cardinality({i \in 1..Len(s) : s[i] = e})

\* C12: with the Azure flag set every request of a call carries the
\* deployment identifier the configuration maps the model name to
\* (deployment_id for a chat completion, engine for an embedding); without
\* the flag no request carries one and the model name is sent as it is.
C12_DeploymentTarget ==
    \A t \in Threads :
        /\ calls[t] > 0 => requests[t] # {}
        /\ \A req \in requests[t] :
               /\ op[t] = "chat" =>
                      /\ req.engine = None
                      /\ req.model = Some(args[t].model)
                      /\ req.deployment_id =
                             IF use_azure THEN Some(AzureDeploymentId(args[t].model))
                                          ELSE None
               /\ op[t] = "embed" =>
                      /\ req.deployment_id = None
                      /\ req.engine =
                             IF use_azure
                             THEN Some(AzureDeploymentId("text-embedding-ada-002"))
                             ELSE None
                      /\ ~use_azure => req.model = Some("text-embedding-ada-002")

C12_Witness ==
    \E t \in Threads :
        /\ use_azure
        /\ op[t] = "chat" /\ calls[t] >= 3
        /\ nRate[t] > 0 /\ n502[t] > 0
        /\ \E req \in requests[t] : req.deployment_id # None

\* C14: in a chat completion the warned flag is false until the first
\* RateLimitError and true from then on, and a call that saw a
\* RateLimitError has issued the rate-limit advisory exactly once.
C14_WarnedOncePerCall ==
    \A t \in Threads :
        op[t] = "chat" =>
            /\ warned_user[t] <=> nRate[t] > 0
            /\ nRate[t] > 0 => Count("rate_limit_advisory", trace[t]) = 1

\* C16: when the tenth attempt fails with a 502 APIError, that error is
\* raised at once in both functions, whatever the debug mode: nine sleeps,
\* no failure message, no process exit.  Only a RateLimitError on the tenth
\* attempt lets the loop run out, after a tenth sleep of 2048 seconds, and
\* only then the code after the loop handles the exhaustion.
C16_TenthFailureKind ==
    \A t \in Threads :
        /\ (calls[t] = num_retries /\ Transients(t) = num_retries
                /\ last[t].kind = "APIError") =>
               /\ pc[t] = "done"
               /\ outcome[t] = Raised(ApiErrorOf(last[t], num_retries - 1))
               /\ Len(sleeps[t]) = num_retries - 1
               /\ ~Occurs("typewriter_log", trace[t])
               /\ ~Occurs("quit", trace[t])
        /\ (calls[t] = num_retries /\ Transients(t) = num_retries
                /\ last[t].kind = "RateLimitError" /\ pc[t] \in {"after", "done"}) =>
               /\ Len(sleeps[t]) = num_retries
               /\ sleeps[t][num_retries] = 2048
               /\ outcome[t].error.type # "APIError"
        /\ (response[t] = None /\ pc[t] = "after") =>
               /\ Transients(t) = num_retries
               /\ last[t].kind = "RateLimitError"
        /\ Occurs("typewriter_log", trace[t]) => last[t].kind = "RateLimitError"

C16_Witness ==
    \E t \in Threads :
        /\ op[t] = "chat" /\ pc[t] = "done"
        /\ ~debug_mode
        /\ calls[t] = num_retries /\ Transients(t) = num_retries
        /\ nRate[t] > 0
        /\ last[t].kind = "APIError" /\ last[t].http_status = 502
        /\ outcome[t].kind = "raise"

\* what a retry may not touch
Resent(t) == << op[t], args[t], response[t], outcome[t], requests[t] >>

\* C17: every request of a call is the caller's arguments unchanged
\* (messages, model, temperature, max_tokens; the text for an embedding),
\* so all attempts send the same request; a failed attempt and its sleep
\* change nothing of the call but attempt, backoff and warned_user.
C17_RetriesResendSameRequest ==
    [][ \A t \in Threads :
          /\ Cardinality(requests'[t]) <= 1
          /\ \A req \in requests'[t] :
                 /\ op'[t] = "chat" =>
                        /\ req.messages = args'[t].messages
                        /\ req.model = Some(args'[t].model)
                        /\ req.temperature = args'[t].temperature
                        /\ req.max_tokens = args'[t].max_tokens
                 /\ op'[t] = "embed" => req.input = << args'[t].text >>
          /\ (pc[t] = "try" /\ pc'[t] = "sleep" /\ calls[t] > 0) =>
                 /\ Resent(t)' = Resent(t)
                 /\ UNCHANGED << debug_mode, use_azure >>
          /\ (pc[t] = "sleep" /\ pc'[t] = "try") =>
                 /\ Resent(t)' = Resent(t)
                 /\ backoff'[t] = backoff[t]
                 /\ warned_user'[t] = warned_user[t]
                 /\ UNCHANGED << debug_mode, use_azure >>
      ]_vars

C17_Witness ==
    \E t \in Threads :
        /\ op[t] = "embed" /\ pc[t] = "try"
        /\ calls[t] >= 3
        /\ nRate[t] > 0 /\ n502[t] > 0
        /\ requests[t] = {EmbedRequest(args[t])}

\* C18: every call ends (return, raised error or process exit) after at
\* most num_retries SDK calls, and after a successful response it makes no
\* further SDK call and no sleep.
C18_EveryCallTerminates ==
    /\ [](\A t \in Threads :
            /\ calls[t] <= num_retries
            /\ last[t].kind = "ok" => pc[t] \in {"after", "done"})
    /\ [][ \A t \in Threads :
             (last[t].kind = "ok" /\ pc'[t] # "idle") =>
                 /\ calls'[t] = calls[t]
                 /\ sleeps'[t] = sleeps[t]
                 /\ pc'[t] \in {"after", "done"} ]_vars
    /\ \A t \in Threads :
           (pc[t] \in {"try", "sleep", "after"}) ~>
               (pc[t] = "done" /\ outcome[t].kind \in {"return", "raise", "exit"})

C18_Witness ==
    \E t \in Threads :
        /\ op[t] = "chat" /\ pc[t] = "done"
        /\ calls[t] = num_retries
        /\ nRate[t] > 0 /\ n502[t] > 0
        /\ last[t].kind = "ok"
        /\ outcome[t].kind = "return"

\* the state of the call of thread t
CallState(t) ==
    << op[t], args[t], pc[t], attempt[t], backoff[t], warned_user[t], response[t],
       outcome[t], calls[t], sleeps[t], trace[t], requests[t], nRate[t], n502[t],
       last[t] >>

\* how a call that ran alone ends, given the failures it saw and its last
\* SDK result
OutcomeAlone(t) ==
    CASE last[t].kind = "ok" -> Returned(Some(last[t].body[1]))
      [] last[t].kind = "APIError" -> Raised(ApiErrorOf(last[t], calls[t] - 1))
      [] last[t].kind = "RateLimitError" /\ op[t] = "chat" ->
             IF debug_mode
             THEN Raised([type |-> "RuntimeError", http_status |-> 0, at |-> num_retries - 1])
             ELSE Exited(1)
      [] OTHER -> Returned(None)

\* the number of sleeps of a finished call that ran alone
SleepsAlone(t) ==
    IF last[t].kind = "RateLimitError" THEN num_retries ELSE calls[t] - 1

\* the call of thread t is where a call that ran alone and saw the same
\* SDK results would be
AsIfAlone(t) ==
    /\ calls[t] <= num_retries
    /\ op[t] = "chat" => (warned_user[t] <=> nRate[t] > 0)
    /\ op[t] # "chat" => ~warned_user[t]
    /\ pc[t] = "try" =>
           /\ attempt[t] = Transients(t) /\ calls[t] = Transients(t)
           /\ sleeps[t] = BackoffSchedule(Transients(t))
           /\ response[t] = None
    /\ pc[t] = "sleep" =>
           /\ attempt[t] + 1 = Transients(t) /\ calls[t] = Transients(t)
           /\ backoff[t] = 2 ^ (Transients(t) + 1)
           /\ sleeps[t] = BackoffSchedule(Transients(t) - 1)
           /\ response[t] = None
    /\ pc[t] = "after" =>
           response[t] = IF last[t].kind = "ok" THEN last[t].body ELSE None
    /\ pc[t] = "done" =>
           /\ attempt[t] = calls[t] - 1
           /\ outcome[t] = OutcomeAlone(t)
           /\ sleeps[t] = BackoffSchedule(SleepsAlone(t))

\* C11: with calls running interleaved in two threads, every step changes
\* the state of one call only, and every call is at each moment where a call
\* that ran alone and saw the same SDK results would be: same attempt
\* counter, backoff, warned flag, response, sleeps and outcome.
C11_CallsAreSelfContained ==
    /\ [](\A t \in Threads : AsIfAlone(t))
    /\ [][ \E t \in Threads :
             \A u \in Threads \ {t} : CallState(u)' = CallState(u) ]_vars

C11_Witness ==
    /\ active = Threads
    /\ op[1] = "chat" /\ op[2] = "chat"
    /\ pc[1] = "sleep" /\ pc[2] = "done"
    /\ attempt[1] = 2 /\ attempt[2] = 5
    /\ warned_user[1] /\ ~warned_user[2]
    /\ n502[2] = 5
    /\ last[2].kind = "ok" /\ outcome[2].kind = "return"
    /\ response[1] = None /\ response[2] # None

\* what str gives for the values of ArgValues, written out
Rendered(v) ==
    CASE v = PyNone -> "None"
      [] v = PyInt(1) -> "1"
      [] v = PyInt(-20) -> "-20"
      [] v = PyStr("x") -> "x"
      [] v = PyStr("") -> ""

RECURSIVE CommaJoined(_)
\* the renderings of the values of a list, in order, with ", " before every
\* value but the first
CommaJoined(a) ==
    IF Len(a) = 0 THEN ""
    ELSE IF Len(a) = 1 THEN Rendered(a[1])
    ELSE CommaJoined(SubSeq(a, 1, Len(a) - 1)) \o ", " \o Rendered(a[Len(a)])

RECURSIVE RenderedLength(_)
RenderedLength(a) ==
    IF Len(a) = 0 THEN 0 ELSE Len(Rendered(a[1])) + RenderedLength(Tail(a))

\* C13: call_ai_function passes exactly two messages, system then user; the
\* content of the user message is the arguments, each rendered by str and
\* None as "None", in their order, joined with ", "; an empty list gives the
\* empty string, [1, None, "x"] gives "1, None, x".
C13_UserMessageIsJoinedArgs ==
    \A t \in Threads :
        caller[t].active =>
            LET msgs == args[t].messages
                a == caller[t].args
            IN /\ Len(msgs) = 2
               /\ msgs[1].role = "system"
               /\ msgs[2].role = "user"
               /\ msgs[2].content = CommaJoined(a)
               /\ Len(msgs[2].content) =
                      RenderedLength(a) + (IF Len(a) = 0 THEN 0 ELSE 2 * (Len(a) - 1))
               /\ a = << >> => msgs[2].content = ""
               /\ a = << PyNone >> => msgs[2].content = "None"
               /\ a = << PyInt(1), PyNone, PyStr("x") >> =>
                      msgs[2].content = "1, None, x"

C13_Witness ==
    \E t \in Threads :
        /\ caller[t].active
        /\ caller[t].args = << PyInt(1), PyNone, PyStr("x") >>
        /\ Len(args[t].messages) = 2
        /\ args[t].messages[2].content = "1, None, x"

\* C15: a call of call_ai_function is one call of create_chat_completion
\* with the two built messages, temperature 0, the given model or else the
\* configured smart model; that call retries and ends as any chat completion
\* does, and its outcome is the outcome of call_ai_function.
C15_DelegatesToChatCompletion ==
    \A t \in Threads :
        /\ ~caller[t].active => delegated[t] = 0 /\ fn_outcome[t] = NoOutcome
        /\ caller[t].active =>
               /\ op[t] = "chat"
               /\ delegated[t] = 1
               /\ args[t].messages =
                      << [role |-> "system",
                          content |-> SystemContent(caller[t].description,
                                                    caller[t].function)],
                         [role |-> "user", content |-> CommaJoined(caller[t].args)] >>
               /\ args[t].temperature = 0
               /\ args[t].max_tokens = None
               /\ args[t].model =
                      IF caller[t].model = None THEN smart_llm_model
                                                ELSE caller[t].model[1]
               /\ \A req \in requests[t] : req.model = Some(args[t].model)
               /\ AsIfAlone(t)
               /\ pc[t] # "done" => fn_outcome[t] = NoOutcome
               /\ fn_outcome[t] # NoOutcome => fn_outcome[t] = outcome[t]

C15_Witness ==
    \E t \in Threads :
        /\ caller[t].active /\ caller[t].model # None
        /\ caller[t].model # Some(smart_llm_model)
        /\ pc[t] = "done"
        /\ nRate[t] > 0 /\ n502[t] > 0
        /\ last[t].kind = "ok"
        /\ fn_outcome[t].kind = "return"
        /\ fn_outcome[t].value = Some(last[t].body[1])

====
